---- MODULE Spec2Model ----
(***************************************************************************)
(* The hand-written recursive-descent parsing engine of language_compiler  *)
(* (parsing.rs: the cursor; parsers.rs: the rules and the backtracking     *)
(* alternation; AST.rs: the grammar assembly and the driver loop) and the  *)
(* nom-based Function rule of ast_parsers.rs.                              *)
(*                                                                         *)
(* A text is a sequence of one-character strings.  A Rust String built by  *)
(* format! is a record holding the template and the values substituted     *)
(* into it.  An i64 is held as its canonical decimal digit sequence,       *)
(* because the values of interest exceed the checker's integers.           *)
(***************************************************************************)
EXTENDS Integers, Sequences, FiniteSets, TLC

\* ------------------------------------------------------------ characters

\* char::is_alphabetic, over the letters the inputs use
is_alphabetic(c) == c \in {"a", "b", "e", "l", "r", "t", "u", "v", "x", "y", "z"}

\* char::is_numeric, over the characters the inputs use: the ASCII digits
is_numeric(c) == c \in {"0", "1", "2", "3", "4", "5", "6", "7", "8", "9"}

\* vec!('_', '-') of parse_name and parse_variable_ref
accepted_nonpreceding_symbols == {"_", "-"}

\* vec!(' ', '\n', '\r') of skip_spaces_and_newlines
WhitespaceChars == {" ", "\n", "\r"}

\* ------------------------------------------------------------ strings

\* a String produced by format! or String::from: the template and its values
Msg(form, expected, line, column, found) ==
    [form |-> form, expected |-> expected, line |-> line, column |-> column, found |-> found]

\* String::new()
EmptyString == Msg("", "", 0, 0, "")

\* "Expected character, but found end of parser input"
EndOfInputMsg == Msg("Expected character, but found end of parser input", "", 0, 0, "")

\* ------------------------------------------------------------ the cursor

\* `let x = value; rest`: rest, a LAMBDA, applied to the value
Bind(value, rest(_)) == rest(value)

\* the value an Option or a Result carries when it carries none
NoChar == [char |-> "", line |-> 0, column |-> 0]

\* Result::Ok(val) with the cursor position the call leaves
Ok(val, position) == [ok |-> TRUE, val |-> val, err |-> EmptyString, position |-> position]

\* Result::Err(err) with the cursor position the call leaves
Err(err, position) == [ok |-> FALSE, val |-> NoChar, err |-> err, position |-> position]

RECURSIVE split(_, _)
\* str::split: the pieces of text between the separators
split(text, sep) ==
    IF \E i \in 1..Len(text) : text[i] = sep
    THEN Bind(CHOOSE k \in 1..Len(text) : text[k] = sep /\ \A j \in 1..(k - 1) : text[j] # sep,
              LAMBDA i : <<SubSeq(text, 1, i - 1)>> \o split(SubSeq(text, i + 1, Len(text)), sep))
    ELSE <<text>>

RECURSIVE push_lines(_, _)
\* the loops of ParseInput::new: one ParsedChar per character of each line
push_lines(lines, line) ==
    IF lines = <<>> THEN <<>>
    ELSE [i \in 1..Len(Head(lines)) |->
             [char |-> Head(lines)[i], line |-> line, column |-> i]]
         \o push_lines(Tail(lines), line + 1)

\* ParseInput::new
ParseInput_new(text) == [position |-> 0, chars |-> push_lines(split(text, "\n"), 1)]

\* Option::is_some of ParseInput::get_next_char
has_next_char(chars, position) == position < Len(chars)

\* ParseInput::get_next_char (NoChar for None)
get_next_char(chars, position) ==
    IF has_next_char(chars, position) THEN chars[position + 1] ELSE NoChar

\* ParseInput::create_save_point
create_save_point(position) == position

\* a load_save_point that forgets to move the cursor back
load_save_point_kept(position, save_point) == position

\* ParseInput::load_save_point
load_save_point(position, save_point) == save_point

\* ParseInput::get_next_char_result
get_next_char_result(chars, position) ==
    IF has_next_char(chars, position)
    THEN Ok(get_next_char(chars, position), position)
    ELSE Err(EndOfInputMsg, position)

\* a skip_next_char that moves two characters
skip_next_char_two(chars, position) ==
    IF position + 2 < Len(chars) THEN position + 2 ELSE Len(chars)

\* ParseInput::skip_next_char
skip_next_char(chars, position) ==
    IF position + 1 < Len(chars) THEN position + 1 ELSE Len(chars)

\* a pop_next_char that advances without looking at the buffer
pop_next_char_unchecked(chars, position) == position + 1

\* ParseInput::pop_next_char (the returned position; the character is get_next_char)
pop_next_char(chars, position) ==
    IF has_next_char(chars, position) THEN position + 1 ELSE position

\* the predicate closure of pop_next_char_alphabetical
alphabetical_predicate(parsed_char) ==
    IF is_alphabetic(parsed_char.char)
    THEN Ok(parsed_char, 0)
    ELSE Err(Msg("Expected alphabetical character at line: {}, column: {}, but found {}",
                 "", parsed_char.line, parsed_char.column, parsed_char.char), 0)

\* the predicate closure of pop_next_char_numerical
numerical_predicate(parsed_char) ==
    IF is_numeric(parsed_char.char)
    THEN Ok(parsed_char, 0)
    ELSE Err(Msg("Expected numerical character at line: {}, column: {}, but found {}",
                 "", parsed_char.line, parsed_char.column, parsed_char.char), 0)

\* the predicate closure of pop_next_char_alphabetical_or_in_group
alphabetical_or_in_group_predicate(parsed_char) ==
    IF is_alphabetic(parsed_char.char) \/ parsed_char.char \in accepted_nonpreceding_symbols
    THEN Ok(parsed_char, 0)
    ELSE Err(Msg("Expected alphabetical character or one of {:?} at line: {}, column: {}, but found {}",
                 "", parsed_char.line, parsed_char.column, parsed_char.char), 0)

\* the predicate a caller passes, by name
apply_predicate(predicate, parsed_char) ==
    CASE predicate = "alphabetical" -> alphabetical_predicate(parsed_char)
      [] predicate = "numerical" -> numerical_predicate(parsed_char)
      [] predicate = "alphabetical_or_in_group" -> alphabetical_or_in_group_predicate(parsed_char)

\* ParseInput::pop_next_char_result
pop_next_char_result(chars, position) ==
    IF has_next_char(chars, position)
    THEN Ok(get_next_char(chars, position), skip_next_char(chars, position))
    ELSE Err(EndOfInputMsg, position)

\* ParseInput::pop_next_char_predicate
pop_next_char_predicate(chars, position, predicate) ==
    IF has_next_char(chars, position)
    THEN Bind(apply_predicate(predicate, get_next_char(chars, position)), LAMBDA x :
             IF x.ok
             THEN Ok(x.val, skip_next_char(chars, position))
             ELSE Err(x.err, position))
    ELSE Err(EndOfInputMsg, position)

\* ParseInput::pop_next_char_alphabetical
pop_next_char_alphabetical(chars, position) ==
    pop_next_char_predicate(chars, position, "alphabetical")

\* ParseInput::pop_next_char_numerical
pop_next_char_numerical(chars, position) ==
    pop_next_char_predicate(chars, position, "numerical")

\* ParseInput::pop_next_char_alphabetical_or_in_group
pop_next_char_alphabetical_or_in_group(chars, position) ==
    pop_next_char_predicate(chars, position, "alphabetical_or_in_group")

RECURSIVE skip_x_chars(_, _, _)
\* ParseInput::skip_x_chars
skip_x_chars(chars, position, x) ==
    IF x = 0 THEN position
    ELSE skip_x_chars(chars,
                      IF has_next_char(chars, position + 1)
                      THEN skip_next_char(chars, position)
                      ELSE position,
                      x - 1)

\* ParseInput::get_next_x_chars: the characters, or <<>> with some = FALSE for None
get_next_x_chars(chars, position, x) ==
    IF position + x <= Len(chars)
    THEN [some |-> TRUE, val |-> [i \in 1..x |-> chars[position + i]]]
    ELSE [some |-> FALSE, val |-> <<>>]

\* ParseInput::match_word
match_word(chars, position, predicate) ==
    Bind(get_next_x_chars(chars, position, Len(predicate)), LAMBDA input_string :
        /\ input_string.some
        /\ Len(predicate) > 0
        /\ [i \in 1..Len(predicate) |-> input_string.val[i].char] = predicate)

\* an error of pop_char and skip_char written without the quotes around the characters
ExpectedCharMsg_unquoted(predicate, parsed_char) ==
    Msg("Expected: {predicate} at line: {}, column: {}, but found {}",
        predicate, parsed_char.line, parsed_char.column, parsed_char.char)

\* the error of pop_char and skip_char when the next character differs
ExpectedCharMsg(predicate, parsed_char) ==
    Msg("Expected: '{predicate}' at line: {}, column: {}, but found '{}'",
        predicate, parsed_char.line, parsed_char.column, parsed_char.char)

\* the error of pop_char and skip_char at the end of the input
ExpectedCharAtEndMsg(predicate) ==
    Msg("Expected: '{predicate}', but found end of parse text", predicate, 0, 0, "")

\* ParseInput::pop_char
pop_char(chars, position, predicate) ==
    IF has_next_char(chars, position)
    THEN Bind(get_next_char(chars, position), LAMBDA parsed_char :
             IF parsed_char.char = predicate
             THEN Ok(parsed_char, skip_next_char(chars, position))
             ELSE Err(ExpectedCharMsg(predicate, parsed_char), position))
    ELSE Err(ExpectedCharAtEndMsg(predicate), position)

\* ParseInput::skip_char (Ok(()) carries no character)
skip_char(chars, position, predicate) ==
    IF has_next_char(chars, position)
    THEN Bind(get_next_char(chars, position), LAMBDA parsed_char :
             IF parsed_char.char = predicate
             THEN Ok(NoChar, skip_next_char(chars, position))
             ELSE Err(ExpectedCharMsg(predicate, parsed_char), position))
    ELSE Err(ExpectedCharAtEndMsg(predicate), position)

\* ParseInput::skip_string
skip_string(chars, position, predicate) ==
    IF match_word(chars, position, predicate)
    THEN Ok(NoChar, skip_x_chars(chars, position, Len(predicate)))
    ELSE IF has_next_char(chars, position)
         THEN Bind(get_next_char(chars, position), LAMBDA next_char :
                  Err(Msg("Expected keyword '{}' at, line: {}, column: {}", predicate,
                          next_char.line, next_char.column, ""), position))
         ELSE Err(Msg("Expected keyword '{}'", predicate, 0, 0, ""), position)

RECURSIVE skip_any_of_chars(_, _, _)
\* ParseInput::skip_any_of_chars
skip_any_of_chars(chars, position, skip_chars) ==
    IF has_next_char(chars, position) /\ get_next_char(chars, position).char \in skip_chars
    THEN skip_any_of_chars(chars, skip_next_char(chars, position), skip_chars)
    ELSE position

\* ParseInput::skip_spaces_and_newlines
skip_spaces_and_newlines(chars, position) ==
    skip_any_of_chars(chars, position, WhitespaceChars)

\* a finished that skips the whitespace before it looks for a character
finished_after_whitespace(chars, position) ==
    ~has_next_char(chars, skip_spaces_and_newlines(chars, position))

\* a finished that already reports the end at the last character
finished_at_last(chars, position) == ~has_next_char(chars, position + 1)

\* ParseInput::finished
finished(chars, position) == ~has_next_char(chars, position)

RECURSIVE pop_until_char(_, _, _, _)
\* ParseInput::pop_until_char, output being the text collected so far
pop_until_char(chars, position, stop_char, output) ==
    IF has_next_char(chars, position)
    THEN Bind(get_next_char(chars, position), LAMBDA parsed_char :
             IF parsed_char.char = stop_char
             THEN [val |-> output, position |-> position]
             ELSE pop_until_char(chars, skip_next_char(chars, position), stop_char,
                                 Append(output, parsed_char.char)))
    ELSE [val |-> output, position |-> position]

\* ------------------------------------------------------------ AST nodes

\* ASTNode::new: an ASTExpression (tag, String payload, i64 payload, child nodes) and its ASTLocation
ASTNode_new(expression, line, column) ==
    [expression |-> expression, location |-> [line |-> line, column |-> column]]

\* ASTExpression::ASTVariableRef
ASTVariableRef(name) == [tag |-> "ASTVariableRef", string |-> name, integer |-> <<>>, nodes |-> <<>>]

\* ASTExpression::ASTInteger
ASTInteger(value) == [tag |-> "ASTInteger", string |-> <<>>, integer |-> value, nodes |-> <<>>]

\* ASTExpression::ASTString
ASTString(value) == [tag |-> "ASTString", string |-> value, integer |-> <<>>, nodes |-> <<>>]

\* ASTExpression::ASTAssignment
ASTAssignment(name, value) ==
    [tag |-> "ASTAssignment", string |-> name, integer |-> <<>>, nodes |-> <<value>>]

\* ASTExpression::ASTInitialization
ASTInitialization(name, value) ==
    [tag |-> "ASTInitialization", string |-> name, integer |-> <<>>, nodes |-> <<value>>]

\* ASTExpression::ASTScope
ASTScope(children) == [tag |-> "ASTScope", string |-> <<>>, integer |-> <<>>, nodes |-> children]

\* ASTExpression::ASTParentheses
ASTParentheses(children) ==
    [tag |-> "ASTParentheses", string |-> <<>>, integer |-> <<>>, nodes |-> children]

\* ASTExpression::ASTFunction
ASTFunction(parameters, body) ==
    [tag |-> "ASTFunction", string |-> <<>>, integer |-> <<>>, nodes |-> <<parameters, body>>]

\* ------------------------------------------------------------ integers

\* the decimal digits of i64::MAX, 9223372036854775807
I64MaxDigits ==
    <<"9", "2", "2", "3", "3", "7", "2", "0", "3", "6", "8", "5", "4", "7", "7", "5", "8", "0", "7">>

\* char::to_digit(10) of an ASCII digit
DigitValue(c) ==
    CASE c = "0" -> 0 [] c = "1" -> 1 [] c = "2" -> 2 [] c = "3" -> 3 [] c = "4" -> 4
      [] c = "5" -> 5 [] c = "6" -> 6 [] c = "7" -> 7 [] c = "8" -> 8 [] c = "9" -> 9

RECURSIVE strip_zeros(_)
\* the digits of a number without its leading zeros
strip_zeros(digits) ==
    IF Len(digits) > 1 /\ Head(digits) = "0" THEN strip_zeros(Tail(digits)) ELSE digits

RECURSIVE digits_greater(_, _)
\* whether a exceeds b, two digit sequences of one length
digits_greater(a, b) ==
    IF a = <<>> THEN FALSE
    ELSE IF DigitValue(Head(a)) # DigitValue(Head(b))
         THEN DigitValue(Head(a)) > DigitValue(Head(b))
         ELSE digits_greater(Tail(a), Tail(b))

\* str::parse::<i64> of a run of ASCII digits, with map_err(|err| err.to_string())
str_parse_i64(output, position) ==
    Bind(strip_zeros(output), LAMBDA value :
        IF \/ Len(value) > Len(I64MaxDigits)
           \/ (Len(value) = Len(I64MaxDigits) /\ digits_greater(value, I64MaxDigits))
        THEN Err(Msg("number too large to fit in target type", "", 0, 0, ""), position)
        ELSE Ok(value, position))

\* ------------------------------------------------------------ leaf rules

RECURSIVE pop_while(_, _, _, _)
\* the loop `while let Ok(next_char) = input.pop_next_char_...() { output += ... }`
pop_while(chars, position, predicate, output) ==
    Bind(pop_next_char_predicate(chars, position, predicate), LAMBDA next_char :
        IF next_char.ok
        THEN pop_while(chars, next_char.position, predicate, Append(output, next_char.val.char))
        ELSE [val |-> output, position |-> next_char.position])

\* parsers::parse_integer
parse_integer(chars, position) ==
    Bind(pop_next_char_numerical(chars, position), LAMBDA first_char :
        IF ~first_char.ok THEN Err(first_char.err, first_char.position)
        ELSE Bind(pop_while(chars, first_char.position, "numerical", <<first_char.val.char>>),
                  LAMBDA output :
                 Bind(str_parse_i64(output.val, output.position), LAMBDA value :
                     IF ~value.ok THEN Err(value.err, output.position)
                     ELSE Ok(ASTNode_new(ASTInteger(value.val),
                                         first_char.val.line, first_char.val.column),
                             output.position))))

\* parsers::parse_string_literal
parse_string_literal(chars, position) ==
    Bind(pop_char(chars, position, "\""), LAMBDA first_char :
        IF ~first_char.ok THEN Err(first_char.err, first_char.position)
        ELSE Bind(pop_until_char(chars, first_char.position, "\"", <<>>), LAMBDA output :
                 Bind(skip_char(chars, output.position, "\""), LAMBDA closing :
                     IF ~closing.ok THEN Err(closing.err, closing.position)
                     ELSE Ok(ASTNode_new(ASTString(output.val),
                                         first_char.val.line, first_char.val.column),
                             closing.position))))

\* parsers::parse_name
parse_name(chars, position) ==
    Bind(pop_next_char_alphabetical(chars, position), LAMBDA first_char :
        IF ~first_char.ok THEN Err(first_char.err, first_char.position)
        ELSE Bind(pop_while(chars, first_char.position, "alphabetical_or_in_group",
                            <<first_char.val.char>>),
                  LAMBDA output : Ok(output.val, output.position)))

\* parsers::parse_variable_ref
parse_variable_ref(chars, position) ==
    Bind(pop_next_char_alphabetical(chars, position), LAMBDA first_char :
        IF ~first_char.ok THEN Err(first_char.err, first_char.position)
        ELSE Bind(pop_while(chars, first_char.position, "alphabetical_or_in_group",
                            <<first_char.val.char>>),
                  LAMBDA output :
                 Ok(ASTNode_new(ASTVariableRef(output.val),
                                first_char.val.line, first_char.val.column),
                    output.position)))

\* ------------------------------------------------------------ composite rules

\* vec!(parse_string_literal, parse_integer, parse_variable_ref): the list the dispatcher is built over
LeafParsers == <<"parse_string_literal", "parse_integer", "parse_variable_ref">>

RECURSIVE main_parser(_, _, _)

\* an interior parser bound to a copy of the rule list taken when the dispatcher was built
interior_parser_copied(parsers, chars, position) == main_parser(LeafParsers, chars, position)

\* Arc::new(main_parser): the handle a composite rule calls; it reads the shared rule list at call time
interior_parser(parsers, chars, position) == main_parser(parsers, chars, position)

RECURSIVE scope_loop(_, _, _, _, _)

\* a scope loop that, when the closer does not match, returns the closer's error
scope_loop_closing_err(parsers, chars, position, output, start_char) ==
    Bind(interior_parser(parsers, chars, skip_spaces_and_newlines(chars, position)), LAMBDA r :
        IF r.ok
        THEN scope_loop(parsers, chars, r.position, Append(output, r.val), start_char)
        ELSE Bind(skip_char(chars, r.position, "}"), LAMBDA closing :
                 IF closing.ok
                 THEN Ok(ASTNode_new(ASTScope(output), start_char.line, start_char.column),
                         closing.position)
                 ELSE Err(closing.err, closing.position)))

\* the loop of the closure parse_scope_with_parser returns
scope_loop(parsers, chars, position, output, start_char) ==
    Bind(interior_parser(parsers, chars, skip_spaces_and_newlines(chars, position)), LAMBDA r :
        IF r.ok
        THEN scope_loop(parsers, chars, r.position, Append(output, r.val), start_char)
        ELSE Bind(skip_char(chars, r.position, "}"), LAMBDA closing :
                 IF closing.ok
                 THEN Ok(ASTNode_new(ASTScope(output), start_char.line, start_char.column),
                         closing.position)
                 ELSE Err(r.err, closing.position)))

\* the closure parse_scope_with_parser returns
parse_scope_with_parser(parsers, chars, position) ==
    Bind(pop_char(chars, position, "{"), LAMBDA start_char :
        IF ~start_char.ok THEN Err(start_char.err, start_char.position)
        ELSE scope_loop(parsers, chars, start_char.position, <<>>, start_char.val))

RECURSIVE parentheses_loop(_, _, _, _, _)
\* the loop of the closure parse_parentheses_with_parser returns
parentheses_loop(parsers, chars, position, output, first_char) ==
    Bind(interior_parser(parsers, chars, skip_spaces_and_newlines(chars, position)), LAMBDA r :
        IF r.ok
        THEN parentheses_loop(parsers, chars, r.position, Append(output, r.val), first_char)
        ELSE Bind(skip_char(chars, r.position, ")"), LAMBDA closing :
                 IF closing.ok
                 THEN Ok(ASTNode_new(ASTParentheses(output), first_char.line, first_char.column),
                         closing.position)
                 ELSE Err(r.err, closing.position)))

\* the closure parse_parentheses_with_parser returns
parse_parentheses_with_parser(parsers, chars, position) ==
    Bind(pop_char(chars, position, "("), LAMBDA first_char :
        IF ~first_char.ok THEN Err(first_char.err, first_char.position)
        ELSE parentheses_loop(parsers, chars, first_char.position, <<>>, first_char.val))

\* the closure parse_function_with_parser returns
parse_function_with_parser(parsers, chars, position) ==
    Bind(get_next_char_result(chars, position), LAMBDA first_char :
        IF ~first_char.ok THEN Err(first_char.err, first_char.position)
        ELSE Bind(parse_parentheses_with_parser(parsers, chars, position), LAMBDA parameters :
                 IF ~parameters.ok THEN Err(parameters.err, parameters.position)
                 ELSE Bind(parse_scope_with_parser(parsers, chars,
                               skip_spaces_and_newlines(chars, parameters.position)),
                           LAMBDA body :
                          IF ~body.ok THEN Err(body.err, body.position)
                          ELSE Ok(ASTNode_new(ASTFunction(parameters.val, body.val),
                                              first_char.val.line, first_char.val.column),
                                  body.position))))

\* the keyword of parse_assignment_with_parser
LetKeyword == <<"l", "e", "t">>

\* parse_assignment_with_parser from parse_name on: the cursor is past the keyword and the
\* whitespace after it, first_char is the character the node is located at
assignment_from_name(parsers, chars, position, initialization, first_char) ==
    Bind(parse_name(chars, position), LAMBDA variable_name :
        IF ~variable_name.ok THEN Err(variable_name.err, variable_name.position)
        ELSE Bind(skip_char(chars, skip_spaces_and_newlines(chars, variable_name.position), "="),
                  LAMBDA equals :
                 IF ~equals.ok THEN Err(equals.err, equals.position)
                 ELSE Bind(interior_parser(parsers, chars,
                               skip_spaces_and_newlines(chars, equals.position)),
                           LAMBDA variable_value :
                          IF ~variable_value.ok
                          THEN Err(variable_value.err, variable_value.position)
                          ELSE Ok(ASTNode_new(
                                      IF initialization
                                      THEN ASTInitialization(variable_name.val, variable_value.val)
                                      ELSE ASTAssignment(variable_name.val, variable_value.val),
                                      first_char.line, first_char.column),
                                  variable_value.position))))

\* an assignment rule that takes the location of an Initialization after the keyword, at the name
parse_assignment_located_at_name(parsers, chars, position) ==
    Bind(match_word(chars, position, LetKeyword), LAMBDA initialization :
        Bind(skip_spaces_and_newlines(chars, skip_string(chars, position, LetKeyword).position),
             LAMBDA after_let :
            Bind(get_next_char_result(chars, after_let), LAMBDA new_first_char :
                IF ~new_first_char.ok THEN Err(new_first_char.err, after_let)
                ELSE assignment_from_name(parsers, chars, after_let, initialization,
                                          new_first_char.val))))

\* the closure parse_assignment_with_parser returns
parse_assignment_with_parser(parsers, chars, position) ==
    Bind(match_word(chars, position, LetKeyword), LAMBDA initialization :
        Bind(skip_spaces_and_newlines(chars, skip_string(chars, position, LetKeyword).position),
             LAMBDA after_let :
            IF initialization
            THEN assignment_from_name(parsers, chars, after_let, TRUE,
                                      get_next_char(chars, position))
            ELSE Bind(get_next_char_result(chars, after_let), LAMBDA new_first_char :
                     IF ~new_first_char.ok THEN Err(new_first_char.err, after_let)
                     ELSE assignment_from_name(parsers, chars, after_let, FALSE,
                                               new_first_char.val))))

\* a boxed rule of the dispatcher's list, called on the cursor
run_parser(parser, parsers, chars, position) ==
    CASE parser = "parse_string_literal" -> parse_string_literal(chars, position)
      [] parser = "parse_integer" -> parse_integer(chars, position)
      [] parser = "parse_variable_ref" -> parse_variable_ref(chars, position)
      [] parser = "scope_parser" -> parse_scope_with_parser(parsers, chars, position)
      [] parser = "parentheses_parser" -> parse_parentheses_with_parser(parsers, chars, position)
      [] parser = "function_parser" -> parse_function_with_parser(parsers, chars, position)
      [] parser = "assignment_parser" -> parse_assignment_with_parser(parsers, chars, position)

\* ------------------------------------------------------------ backtracking alternation

\* an alternation that keeps the first error instead of the last
keep_first_err(last_err, err) == IF last_err = EmptyString THEN err ELSE last_err

\* `last_err = err` of try_parsers_with_list
keep_last_err(last_err, err) == err

RECURSIVE try_parsers_loop(_, _, _, _, _, _)
\* the for loop of the closure try_parsers_with_list returns, at the i-th rule
try_parsers_loop(parsers, i, chars, position, save_point, last_err) ==
    IF i > Len(parsers) THEN Err(last_err, position)
    ELSE Bind(run_parser(parsers[i], parsers, chars, skip_spaces_and_newlines(chars, position)),
              LAMBDA r :
             IF r.ok THEN r
             ELSE try_parsers_loop(parsers, i + 1, chars,
                                   load_save_point(r.position, save_point),
                                   save_point, keep_last_err(last_err, r.err)))

\* the closure try_parsers_with_list returns (main_parser of parse_ast_text)
main_parser(parsers, chars, position) ==
    try_parsers_loop(parsers, 1, chars, position, create_save_point(position), EmptyString)

\* ------------------------------------------------------------ inputs

\* the longest text drawn character by character
MaxLen == 3

\* the deepest nesting drawn
MaxDepth == 4

\* the characters of the texts drawn character by character
TextChars == {"a", "1", " ", "{", "}", "(", ")"}

\* every text of at most n characters of TextChars
TextsUpTo(n) == UNION {[1..k -> TextChars] : k \in 0..n}

\* the integer literal written at nesting level k
LevelDigit(k) == <<"0", "1", "2", "3", "5", "9">>[(k % 6) + 1]

RECURSIVE NestedText(_, _, _, _)
\* levels k..n-1 of `(0 (1 (2 (3))))`, written with the delimiters open and close
NestedText(open, close, k, n) ==
    IF k + 1 >= n THEN <<open, LevelDigit(k), close>>
    ELSE <<open, LevelDigit(k), " ">> \o NestedText(open, close, k + 1, n) \o <<close>>

\* the nested groups and scopes of every depth drawn
NestedTexts ==
    {NestedText("(", ")", 0, n) : n \in 1..MaxDepth}
        \cup {NestedText("{", "}", 0, n) : n \in 1..MaxDepth}

\* identifier names, some of them beginning with the keyword
Names ==
    {<<"x">>, <<"a", "b">>, <<"a", "_", "b">>, <<"l", "e">>,
     <<"l", "e", "t", "t", "e", "r">>}

\* well-formed value expressions
ValueTexts ==
    {<<"5">>, <<"1", "2">>, <<"y">>, <<"\"", "a", " ", "\"">>, <<"{", "1", "}">>,
     <<"(", "y", " ", "2", ")">>, <<"y", "=", "5">>}

\* `N = E` and `let N = E`, with and without whitespace around `=`
AssignmentTexts ==
    {keyword \o name \o before \o <<"=">> \o after \o value :
        keyword \in {<<>>, <<"l", "e", "t", " ">>}, name \in Names,
        before \in {<<>>, <<" ">>}, after \in {<<>>, <<" ">>, <<"\n">>},
        value \in ValueTexts}

\* two expressions separated by a space, a newline or a carriage return, maybe with trailing whitespace
SeparatedTexts ==
    {first \o separator \o second \o trailing :
        first \in {<<"a">>, <<"1">>, <<"(", "a", ")">>},
        separator \in {<<" ">>, <<"\n">>, <<"\r">>, <<"\r", "\n">>},
        second \in {<<"b">>, <<"2">>, <<"{", "}">>},
        trailing \in {<<>>, <<" ">>, <<"\n">>}}

\* the texts the specification and its examples name
ExampleTexts ==
    {<<"{", "1", " ", "2">>,
     <<"(", "1", " ", "2">>,
     <<"l", "e", "t", "_", "v", "a", "l", "u", "e">>,
     <<"l", "e", "t", "_", "x">>,
     <<"l", "e", "t">>,
     <<"l", "e", "t", " ", "x">>,
     <<"{", " ", "\n", " ", "}">>,
     <<"(", "x", " ", "y", ")", " ", "{", "x", "}">>,
     <<"(", "x", ")", "{", "(", "y", ")", "{", "x", "}", "}">>,
     <<"a", " ", "\n", "l", "e", "t", " ", "x", " ", "=", " ", "5">>,
     <<"|", "x", "|", " ", "1">>,
     <<"|", "x", " ", "y", "|", " ", "x">>,
     <<"{", "x", "=", "(", "1", ")", " ", "\"", "}">>,
     <<"9", "2", "2", "3", "3", "7", "2", "0", "3", "6", "8", "5", "4", "7", "7", "5", "8", "0", "9">>,
     <<"x", " ", "9", "9", "9", "9", "9", "9", "9", "9", "9", "9", "9", "9", "9", "9", "9", "9", "9", "9", "9", "9">>}

\* texts without a `"`, the contents of string literals; some span several lines
StringContents ==
    {<<>>, <<"a">>, <<"a", " ", "b">>, <<"{", "1", "}">>, <<"x", "=", "5", " ">>,
     <<"a", "\n", "b">>, <<"\n">>, <<"a", " ", "\n", " ", "b", "\n">>}

\* the string literals `"T"`
StringTexts == {<<"\"">> \o content \o <<"\"">> : content \in StringContents}

\* runs of ASCII digits whose value an i64 holds
DigitTexts ==
    {<<"0">>, <<"5">>, <<"1", "2">>, <<"0", "0", "5">>, <<"9", "9", "9", "9", "9">>, I64MaxDigits}

\* the texts `-?[0-9]+` whose value an i64 holds
IntegerTexts == DigitTexts \cup {<<"-">> \o digits : digits \in DigitTexts}

\* sequences of well-formed expressions
ExpressionTexts ==
    {<<"a">>, <<"1", "2">>, <<"x", " ", "=", " ", "5">>, <<"{", "1", "}">>,
     <<"(", "a", ")", " ", "{", "}">>, <<"\"", "a", " ", "\"">>, <<"a", " ", "b">>,
     <<"l", "e", "t", " ", "x", " ", "=", " ", "(", "1", ")", "\r", "y">>}

\* runs of trailing spaces and carriage returns
WhitespaceTails == {<<" ">>, <<"\r">>, <<" ", "\r">>, <<"\r", " ", " ">>}

\* sequences of well-formed expressions followed by trailing whitespace
TrailingTexts == {body \o trailing : body \in ExpressionTexts, trailing \in WhitespaceTails}

\* the texts parse_ast_text is called on
Inputs ==
    TextsUpTo(MaxLen) \cup NestedTexts \cup AssignmentTexts \cup SeparatedTexts \cup ExampleTexts
        \cup StringTexts \cup IntegerTexts \cup ExpressionTexts \cup TrailingTexts

\* ------------------------------------------------------------ parse_ast_text

VARIABLES
    text,       \* the argument of parse_ast_text
    parsers,    \* the shared rule list, Rc<RefCell<Vec<Box<dyn Fn>>>>
    pc,         \* the statement parse_ast_text is at
    chars,      \* ParseInput::chars
    position,   \* ParseInput::position
    ast_tree,   \* the nodes collected by the driver loop
    stderr,     \* the errors written by eprintln!
    called,     \* the last call made on the cursor: its name, its argument, the position before it, its result
    save_point  \* the ParseSavePoint a caller of the cursor holds, <<>> when it holds none

vars == <<text, parsers, pc, chars, position, ast_tree, stderr, called, save_point>>

\* no call made on the cursor yet
NoCall == [op |-> "none", arg |-> <<>>, before |-> 0, result |-> Err(EmptyString, 0)]

\* the entry of parse_ast_text, the rule list holding the leaf rules
Init ==
    /\ text \in Inputs
    /\ parsers = LeafParsers
    /\ pc = "push_scope"
    /\ chars = <<>>
    /\ position = 0
    /\ ast_tree = <<>>
    /\ stderr = <<>>
    /\ called = NoCall
    /\ save_point = <<>>

\* Vec::insert
Vec_insert(vec, index, element) ==
    SubSeq(vec, 1, index) \o <<element>> \o SubSeq(vec, index + 1, Len(vec))

\* parsers.borrow_mut().push(Box::new(scope_parser))
PushScope ==
    /\ pc = "push_scope"
    /\ parsers' = Append(parsers, "scope_parser")
    /\ pc' = "push_parentheses"
    /\ UNCHANGED <<text, chars, position, ast_tree, stderr, called, save_point>>

\* parsers.borrow_mut().push(Box::new(parentheses_parser))
PushParentheses ==
    /\ pc = "push_parentheses"
    /\ parsers' = Append(parsers, "parentheses_parser")
    /\ pc' = "insert_function"
    /\ UNCHANGED <<text, chars, position, ast_tree, stderr, called, save_point>>

\* parsers.borrow_mut().insert(0, Box::new(function_parser))
InsertFunction ==
    /\ pc = "insert_function"
    /\ parsers' = Vec_insert(parsers, 0, "function_parser")
    /\ pc' = "insert_assignment"
    /\ UNCHANGED <<text, chars, position, ast_tree, stderr, called, save_point>>

\* parsers.borrow_mut().insert(1, Box::new(assignment_parser))
InsertAssignment ==
    /\ pc = "insert_assignment"
    /\ parsers' = Vec_insert(parsers, 1, "assignment_parser")
    /\ pc' = "new_input"
    /\ UNCHANGED <<text, chars, position, ast_tree, stderr, called, save_point>>

\* let mut input = ParseInput::new(text); let mut ast_tree = Vec::new()
NewInput ==
    /\ pc = "new_input"
    /\ Bind(ParseInput_new(text), LAMBDA input :
           /\ chars' = input.chars
           /\ position' = input.position)
    /\ ast_tree' = <<>>
    /\ pc' = "loop"
    /\ UNCHANGED <<text, parsers, stderr, called, save_point>>

\* one turn of the driver loop in which main_parser succeeds
LoopOk ==
    /\ pc = "loop"
    /\ ~finished(chars, position)
    /\ Bind(main_parser(parsers, chars, position), LAMBDA r :
           /\ r.ok
           /\ position' = r.position
           /\ ast_tree' = Append(ast_tree, r.val)
           /\ called' = [op |-> "main_parser", arg |-> <<>>, before |-> position, result |-> r])
    /\ UNCHANGED <<text, parsers, pc, chars, stderr, save_point>>

\* a failing turn of the driver loop without the break: the error is printed and the loop goes on
LoopErr_no_break ==
    /\ pc = "loop"
    /\ ~finished(chars, position)
    /\ Bind(main_parser(parsers, chars, position), LAMBDA r :
           /\ ~r.ok
           /\ position' = r.position
           /\ stderr' = Append(stderr, r.err)
           /\ called' = [op |-> "main_parser", arg |-> <<>>, before |-> position, result |-> r])
    /\ UNCHANGED <<text, parsers, pc, chars, ast_tree, save_point>>

\* the turn of the driver loop in which main_parser fails: the error is printed and the loop left
LoopErr ==
    /\ pc = "loop"
    /\ ~finished(chars, position)
    /\ Bind(main_parser(parsers, chars, position), LAMBDA r :
           /\ ~r.ok
           /\ position' = r.position
           /\ stderr' = Append(stderr, r.err)
           /\ called' = [op |-> "main_parser", arg |-> <<>>, before |-> position, result |-> r])
    /\ pc' = "return"
    /\ UNCHANGED <<text, parsers, chars, ast_tree, save_point>>

\* the turn of the driver loop that finds the input finished
LoopFinished ==
    /\ pc = "loop"
    /\ finished(chars, position)
    /\ pc' = "return"
    /\ UNCHANGED <<text, parsers, chars, position, ast_tree, stderr, called, save_point>>

Next ==
    \/ PushScope
    \/ PushParentheses
    \/ InsertFunction
    \/ InsertAssignment
    \/ NewInput
    \/ LoopOk
    \/ LoopErr
    \/ LoopFinished

Spec == Init /\ [][Next]_vars

\* ------------------------------------------------------------ the cursor's operations

\* the characters of the texts the cursor operations are exercised on
CursorChars == {"a", "1", " ", "\n", "="}

\* the texts the cursor operations are exercised on
CursorTexts == UNION {[1..k -> CursorChars] : k \in 0..MaxLen}

\* a cursor just built by ParseInput::new, held by a caller that calls its methods
InitCursor ==
    /\ text \in CursorTexts
    /\ parsers = LeafParsers
    /\ pc = "cursor"
    /\ chars = ParseInput_new(text).chars
    /\ position = ParseInput_new(text).position
    /\ ast_tree = <<>>
    /\ stderr = <<>>
    /\ called = NoCall
    /\ save_point = <<>>

\* a call on the cursor with the argument arg that returns the Result r and leaves the cursor
\* at r.position
CursorCallWith(op, arg, r) ==
    /\ position' = r.position
    /\ called' = [op |-> op, arg |-> arg, before |-> position, result |-> r]
    /\ UNCHANGED <<text, parsers, pc, chars, ast_tree, stderr, save_point>>

\* a call on the cursor that returns the Result r and leaves the cursor at r.position
CursorCall(op, r) == CursorCallWith(op, <<>>, r)

\* a call on the cursor that returns nothing and leaves the cursor at the position after
CursorMove(op, after) == CursorCall(op, Ok(NoChar, after))

\* input.pop_char(predicate)
PopChar == \E predicate \in {"a", "="} : CursorCall("pop_char", pop_char(chars, position, predicate))

\* input.skip_char(predicate)
SkipChar == \E predicate \in {"1", " "} : CursorCall("skip_char", skip_char(chars, position, predicate))

\* input.pop_next_char_alphabetical()
PopNextCharAlphabetical ==
    CursorCall("pop_next_char_alphabetical", pop_next_char_alphabetical(chars, position))

\* input.pop_next_char_numerical()
PopNextCharNumerical ==
    CursorCall("pop_next_char_numerical", pop_next_char_numerical(chars, position))

\* input.pop_next_char_alphabetical_or_in_group(&accepted_nonpreceding_symbols)
PopNextCharAlphabeticalOrInGroup ==
    CursorCall("pop_next_char_alphabetical_or_in_group",
               pop_next_char_alphabetical_or_in_group(chars, position))

\* input.pop_next_char_result()
PopNextCharResult == CursorCall("pop_next_char_result", pop_next_char_result(chars, position))

\* input.pop_next_char()
PopNextChar ==
    CursorCall("pop_next_char",
               IF has_next_char(chars, position)
               THEN Ok(get_next_char(chars, position), pop_next_char(chars, position))
               ELSE Err(EmptyString, pop_next_char(chars, position)))

\* input.get_next_char(), the peek
GetNextChar ==
    CursorCall("get_next_char",
               IF has_next_char(chars, position)
               THEN Ok(get_next_char(chars, position), position)
               ELSE Err(EmptyString, position))

\* input.skip_next_char()
SkipNextChar == CursorMove("skip_next_char", skip_next_char(chars, position))

\* input.skip_x_chars(x)
SkipXChars == \E x \in 0..MaxLen : CursorMove("skip_x_chars", skip_x_chars(chars, position, x))

\* the words skip_string is called with
Keywords == {<<"a">>, <<"a", "1">>, <<"=", " ", "a">>}

\* input.skip_string(predicate)
SkipString ==
    \E predicate \in Keywords :
        CursorCallWith("skip_string", predicate, skip_string(chars, position, predicate))

\* input.skip_spaces_and_newlines()
SkipSpacesAndNewlines ==
    CursorMove("skip_spaces_and_newlines", skip_spaces_and_newlines(chars, position))

\* input.pop_until_char(stop_char)
PopUntilChar ==
    \E stop_char \in {"="} :
        CursorMove("pop_until_char", pop_until_char(chars, position, stop_char, <<>>).position)

\* let save_point = input.create_save_point()
CreateSavePoint ==
    /\ save_point' = <<create_save_point(position)>>
    /\ called' = [op |-> "create_save_point", arg |-> <<>>, before |-> position,
                  result |-> Ok(NoChar, position)]
    /\ UNCHANGED <<text, parsers, pc, chars, position, ast_tree, stderr>>

\* input.load_save_point(save_point), of a save point taken on this cursor
LoadSavePoint ==
    /\ save_point # <<>>
    /\ CursorMove("load_save_point", load_save_point(position, save_point[1]))

NextCursor ==
    \/ PopChar
    \/ SkipChar
    \/ PopNextCharAlphabetical
    \/ PopNextCharNumerical
    \/ PopNextCharAlphabeticalOrInGroup
    \/ PopNextCharResult
    \/ GetNextChar
    \/ PopNextChar
    \/ SkipNextChar
    \/ SkipXChars
    \/ SkipString
    \/ SkipSpacesAndNewlines
    \/ PopUntilChar
    \/ CreateSavePoint
    \/ LoadSavePoint

SpecCursor == InitCursor /\ [][NextCursor]_vars

\* the calls that consume one character if it satisfies a condition
ConditionalConsumes ==
    {"pop_char", "skip_char", "pop_next_char_alphabetical", "pop_next_char_numerical",
     "pop_next_char_alphabetical_or_in_group"}

\* C3: after a conditional consume that succeeded the position is one more than before the call
\* and the character returned (skip_char returns none) is the one that was at the old position;
\* after one that failed the position is the one before the call
C3_ConditionalConsume ==
    called.op \in ConditionalConsumes =>
        IF called.result.ok
        THEN /\ called.before < Len(chars)
             /\ position = called.before + 1
             /\ called.op # "skip_char" => called.result.val = chars[called.before + 1]
        ELSE position = called.before

\* C3 witness: a conditional consume succeeded on a character that is not the last of the
\* buffer, after an earlier call had moved the cursor
C3_Witness ==
    /\ called.op = "pop_next_char_numerical"
    /\ called.result.ok
    /\ called.before > 0
    /\ position < Len(chars)

\* ------------------------------------------------------------ the alternation's contract

\* the cursor exists: parse_ast_text is in or past its driver loop
InputBuilt == pc \in {"loop", "return"}

\* the position the rules of one dispatcher call start from: the entry position, whitespace skipped
RuleStart(entry) == skip_spaces_and_newlines(chars, entry)

\* the indices of the rules of the list that succeed when started from the position start
Succeeding(start) ==
    {i \in 1..Len(parsers) : run_parser(parsers[i], parsers, chars, start).ok}

\* the least member of a non-empty set of indices
Lowest(indices) == CHOOSE i \in indices : \A j \in indices : i <= j

\* C1: a dispatcher call made at any position of the cursor returns exactly what the
\* lowest-index rule that succeeds from the whitespace-skipped entry position returns, node and
\* final cursor position alike, so the rules that failed before it left no effect
C1_FirstSuccessWins ==
    InputBuilt =>
        \A entry \in 0..Len(chars) :
            Succeeding(RuleStart(entry)) # {} =>
                main_parser(parsers, chars, entry) =
                    run_parser(parsers[Lowest(Succeeding(RuleStart(entry)))], parsers, chars,
                               RuleStart(entry))

\* C1 witness: the driver's dispatcher call succeeded after whitespace was skipped and after an
\* earlier rule had consumed characters before failing
C1_Witness ==
    /\ called.op = "main_parser"
    /\ called.result.ok
    /\ RuleStart(called.before) > called.before
    /\ \E i \in 1..Len(parsers) :
           /\ i < Lowest(Succeeding(RuleStart(called.before)))
           /\ run_parser(parsers[i], parsers, chars, RuleStart(called.before)).position
                  > RuleStart(called.before)

\* C2: when no rule succeeds from the whitespace-skipped entry position, the dispatcher call
\* fails with the error of the last rule of the list and leaves the cursor at the entry position
C2_LastErrorAndRestore ==
    InputBuilt =>
        \A entry \in 0..Len(chars) :
            Succeeding(RuleStart(entry)) = {} =>
                /\ ~main_parser(parsers, chars, entry).ok
                /\ main_parser(parsers, chars, entry).err =
                       run_parser(parsers[Len(parsers)], parsers, chars, RuleStart(entry)).err
                /\ main_parser(parsers, chars, entry).position = entry

\* C2 witness: the driver's dispatcher call failed after whitespace was skipped, and a rule
\* other than the last had consumed characters before failing with another error than the one
\* returned
C2_Witness ==
    /\ called.op = "main_parser"
    /\ ~called.result.ok
    /\ position = called.before
    /\ RuleStart(called.before) > called.before
    /\ stderr = <<called.result.err>>
    /\ \E i \in 1..(Len(parsers) - 1) :
           /\ run_parser(parsers[i], parsers, chars, RuleStart(called.before)).position
                  > RuleStart(called.before)
           /\ run_parser(parsers[i], parsers, chars, RuleStart(called.before)).err
                  # called.result.err

\* ------------------------------------------------------------ the driver loop's contract

RECURSIVE DriverRun(_, _, _)
\* what repeated dispatcher calls from the position start yield: the nodes of the successes up
\* to the end of the input or the first failure, and the error of that failure
DriverRun(rules, buffer, start) ==
    IF start >= Len(buffer) THEN [nodes |-> <<>>, errors |-> <<>>]
    ELSE Bind(main_parser(rules, buffer, start), LAMBDA r :
             IF r.ok
             THEN Bind(DriverRun(rules, buffer, r.position), LAMBDA rest :
                      [nodes |-> <<r.val>> \o rest.nodes, errors |-> rest.errors])
             ELSE [nodes |-> <<>>, errors |-> <<r.err>>])

\* whether location a comes before location b in the source
Before(a, b) == a.line < b.line \/ (a.line = b.line /\ a.column < b.column)

\* C4: the driver loop collects one node per successful dispatcher call, in source order; while
\* it loops nothing has been printed; once it has returned, the nodes are those of the
\* successful calls made before the end of the input or the first failure, nothing after that
\* failure, and the error printed is that failure's
C4_DriverLoop ==
    InputBuilt =>
        /\ Len(ast_tree) <= Len(DriverRun(parsers, chars, 0).nodes)
        /\ ast_tree = SubSeq(DriverRun(parsers, chars, 0).nodes, 1, Len(ast_tree))
        /\ \A i, j \in 1..Len(ast_tree) :
               i < j => Before(ast_tree[i].location, ast_tree[j].location)
        /\ pc = "loop" => stderr = <<>>
        /\ pc = "return" =>
               /\ ast_tree = DriverRun(parsers, chars, 0).nodes
               /\ stderr = DriverRun(parsers, chars, 0).errors
               /\ stderr = <<>> => position = Len(chars)

\* C4 witness: the driver returned after a failure, with the two nodes collected before it
C4_Witness ==
    /\ pc = "return"
    /\ Len(stderr) = 1
    /\ Len(ast_tree) = 2
    /\ position < Len(chars)

\* ------------------------------------------------------------ the grammar's contract

RECURSIVE Shape(_)
\* a node without the locations: its variant, its payload and the shapes of its children
Shape(node) ==
    [tag |-> node.expression.tag, string |-> node.expression.string,
     integer |-> node.expression.integer,
     nodes |-> [i \in 1..Len(node.expression.nodes) |-> Shape(node.expression.nodes[i])]]

\* the shapes of a sequence of nodes
Shapes(nodes) == [i \in 1..Len(nodes) |-> Shape(nodes[i])]

\* the rule list parse_ast_text assembles
AssembledParsers ==
    <<"function_parser", "assignment_parser", "parse_string_literal", "parse_integer",
      "parse_variable_ref", "scope_parser", "parentheses_parser">>

\* the shapes of the nodes the assembled grammar yields for a text
ParsedShapes(source) ==
    Shapes(DriverRun(AssembledParsers, ParseInput_new(source).chars, 0).nodes)

\* C5: for the text `{1 2` the error the driver prints is the innermost failure, the one of the
\* child parse at the end of the input after `2`, and is not located at the `{` of line 1, column 1
C5_ErrorLocality ==
    (pc = "return" /\ text = <<"{", "1", " ", "2">>) =>
        /\ stderr = <<main_parser(parsers, chars, Len(chars)).err>>
        /\ ~(stderr[1].line = 1 /\ stderr[1].column = 1)

\* C6: a text `N = E` parses to the one node Assignment(N, value of E) and a text `let N = E`
\* to the one node Initialization(N, value of E), for every name N and value expression E drawn
C6_AssignmentOrInitialization ==
    pc = "return" =>
        \A keyword \in {<<>>, <<"l", "e", "t", " ">>}, name \in Names,
           before \in {<<>>, <<" ">>}, after \in {<<>>, <<" ">>, <<"\n">>}, value \in ValueTexts :
            text = keyword \o name \o before \o <<"=">> \o after \o value =>
                /\ stderr = <<>>
                /\ Len(ParsedShapes(value)) = 1
                /\ Shapes(ast_tree) =
                       <<[tag |-> IF keyword = <<>> THEN "ASTAssignment" ELSE "ASTInitialization",
                          string |-> name, integer |-> <<>>, nodes |-> ParsedShapes(value)]>>

\* C7: the keyword check does not match an identifier that only begins with `let`: `let_value`
\* parses to VariableRef("let_value") and `letter = 5` to Assignment("letter", Integer(5))
C7_KeywordBoundary ==
    pc = "return" =>
        /\ text = <<"l", "e", "t", "_", "v", "a", "l", "u", "e">> =>
               Shapes(ast_tree) = <<Shape(ASTNode_new(ASTVariableRef(text), 1, 1))>>
        /\ text = <<"l", "e", "t", "t", "e", "r", " ", "=", " ", "5">> =>
               Shapes(ast_tree) =
                   <<Shape(ASTNode_new(
                         ASTAssignment(<<"l", "e", "t", "t", "e", "r">>,
                                       ASTNode_new(ASTInteger(<<"5">>), 1, 10)), 1, 1))>>

RECURSIVE NestedNode(_, _, _)
\* the node of levels k..n-1 of a nested text: the integer of level k, then the node of the next level
NestedNode(open, k, n) ==
    ASTNode_new(
        [tag |-> IF open = "(" THEN "ASTParentheses" ELSE "ASTScope",
         string |-> <<>>, integer |-> <<>>,
         nodes |-> <<ASTNode_new(ASTInteger(<<LevelDigit(k)>>), 1, 3 * k + 2)>>
                       \o (IF k + 1 >= n THEN <<>> ELSE <<NestedNode(open, k + 1, n)>>)],
        1, 3 * k + 1)

\* C8: n nested groups parse, without an error, to the one Parentheses node whose children are
\* the integer and the node of the next level, and n nested scopes to the same tree of Scope
\* nodes; the composite rules reach the rules added to the list after they were built
C8_RecursiveNesting ==
    pc = "return" =>
        \A n \in 1..MaxDepth :
            /\ text = NestedText("(", ")", 0, n) =>
                   ast_tree = <<NestedNode("(", 0, n)>> /\ stderr = <<>>
            /\ text = NestedText("{", "}", 0, n) =>
                   ast_tree = <<NestedNode("{", 0, n)>> /\ stderr = <<>>

\* C8 witness: the deepest nested scopes drawn were parsed to one Scope node
C8_Witness ==
    /\ pc = "return"
    /\ text = NestedText("{", "}", 0, MaxDepth)
    /\ Len(ast_tree) = 1
    /\ ast_tree[1].expression.tag = "ASTScope"
    /\ Len(ast_tree[1].expression.nodes) = 2

\* C9: the Function rule accepts `|` identifiers `|` body: `|x| 1` parses, without an error, to
\* one Function node, and `|x y| x` to one Function node whose body is a Function node, the
\* same nodes, locations aside, as `|x| |y| x` parses to
C9_CurryingEquivalence ==
    pc = "return" =>
        /\ text = <<"|", "x", "|", " ", "1">> =>
               /\ stderr = <<>>
               /\ Len(ast_tree) = 1
               /\ ast_tree[1].expression.tag = "ASTFunction"
        /\ text = <<"|", "x", " ", "y", "|", " ", "x">> =>
               /\ stderr = <<>>
               /\ Len(ast_tree) = 1
               /\ ast_tree[1].expression.tag = "ASTFunction"
               /\ ast_tree[1].expression.nodes[2].expression.tag = "ASTFunction"
               /\ Shapes(ast_tree) =
                      ParsedShapes(<<"|", "x", "|", " ", "|", "y", "|", " ", "x">>)

\* C10: two expressions separated by a newline parse to the same nodes, locations aside, as
\* the two separated by a space
C10_NewlineSeparates ==
    pc = "return" =>
        \A first \in {<<"a">>, <<"1">>, <<"(", "a", ")">>},
           second \in {<<"b">>, <<"2">>, <<"{", "}">>} :
            text = first \o <<"\n">> \o second =>
                Shapes(ast_tree) = ParsedShapes(first \o <<" ">> \o second)

\* ------------------------------------------------------------ the nom integer rule

RECURSIVE digits_and_underscores(_)
\* many0 of the rest of parse_numbers::decimal: the longest run of digits and `_`
digits_and_underscores(input) ==
    IF input # <<>> /\ (is_numeric(Head(input)) \/ Head(input) = "_")
    THEN <<Head(input)>> \o digits_and_underscores(Tail(input))
    ELSE <<>>

\* parse_numbers::decimal: recognize(many1(terminated(one_of("0123456789"), many0(char('_')))));
\* position counts the characters recognized
parse_numbers_decimal(input) ==
    IF input # <<>> /\ is_numeric(Head(input))
    THEN Bind(digits_and_underscores(input), LAMBDA recognized : Ok(recognized, Len(recognized)))
    ELSE Err(Msg("Error(OneOf)", "", 0, 0, ""), 0)

\* parse_numbers::integer: recognize(tuple((opt(char('-')), decimal)))
parse_numbers_integer(input) ==
    IF input # <<>> /\ Head(input) = "-"
    THEN Bind(parse_numbers_decimal(Tail(input)), LAMBDA digits :
             IF digits.ok THEN Ok(<<"-">> \o digits.val, digits.position + 1) ELSE digits)
    ELSE parse_numbers_decimal(input)

\* the decimal digits of the magnitude of i64::MIN, 9223372036854775808
I64MinDigits ==
    <<"9", "2", "2", "3", "3", "7", "2", "0", "3", "6", "8", "5", "4", "7", "7", "5", "8", "0", "8">>

\* whether an i64 holds the number of these digits (leading zeros stripped), limit being the
\* largest magnitude of its sign
fits_i64(value, limit) ==
    \/ Len(value) < Len(limit)
    \/ (Len(value) = Len(limit) /\ ~digits_greater(value, limit))

\* str::parse::<i64> of the text parse_numbers::integer recognized: a `-`, digits and `_`
str_parse_i64_signed(x) ==
    IF \E i \in 1..Len(x) : x[i] = "_"
    THEN Err(Msg("invalid digit found in string", "", 0, 0, ""), 0)
    ELSE IF Head(x) = "-"
         THEN (IF fits_i64(strip_zeros(Tail(x)), I64MinDigits)
               THEN Ok(IF strip_zeros(Tail(x)) = <<"0">> THEN <<"0">>
                       ELSE <<"-">> \o strip_zeros(Tail(x)), 0)
               ELSE Err(Msg("number too small to fit in target type", "", 0, 0, ""), 0))
         ELSE (IF fits_i64(strip_zeros(x), I64MaxDigits)
               THEN Ok(strip_zeros(x), 0)
               ELSE Err(Msg("number too large to fit in target type", "", 0, 0, ""), 0))

\* ast_parsers::parse_integer: map(parse_numbers::integer, |x| AST::Integer(parse(x).unwrap()));
\* panicked tells that unwrap met an Err
ast_parsers_parse_integer(input) ==
    Bind(parse_numbers_integer(input), LAMBDA x :
        IF ~x.ok THEN [panicked |-> FALSE, result |-> x]
        ELSE Bind(str_parse_i64_signed(x.val), LAMBDA value :
                 IF value.ok
                 THEN [panicked |-> FALSE, result |-> Ok(ASTInteger(value.val), x.position)]
                 ELSE [panicked |-> TRUE, result |-> Err(value.err, 0)]))

\* the characters of the texts the nom integer rule is applied to
NomChars == {"1", "9", "-", "_", "a"}

\* runs of digits whose value no i64 holds
OverflowDigitTexts ==
    {I64MinDigits,
     <<"9", "2", "2", "3", "3", "7", "2", "0", "3", "6", "8", "5", "4", "7", "7", "5", "8", "0", "9">>,
     <<"9", "9", "9", "9", "9", "9", "9", "9", "9", "9", "9", "9", "9", "9", "9", "9", "9", "9", "9", "9">>,
     <<"0", "1", "8", "4", "4", "6", "7", "4", "4", "0", "7", "3", "7", "0", "9", "5", "5", "1", "6", "1", "6">>}

\* the texts the nom integer rule is applied to
NomTexts ==
    UNION {[1..k -> NomChars] : k \in 0..MaxLen} \cup IntegerTexts \cup OverflowDigitTexts
        \cup {digits \o <<" ", "x">> : digits \in OverflowDigitTexts}

\* a caller about to apply ast_parsers::parse_integer to a text
InitNom ==
    /\ text \in NomTexts
    /\ parsers = <<>>
    /\ pc = "nom"
    /\ chars = <<>>
    /\ position = 0
    /\ ast_tree = <<>>
    /\ stderr = <<>>
    /\ called = NoCall
    /\ save_point = <<>>

\* ast_parsers::parse_integer(text): it returns, or the thread panics in unwrap
ParseIntegerNom ==
    /\ pc = "nom"
    /\ Bind(ast_parsers_parse_integer(text), LAMBDA r :
           /\ pc' = IF r.panicked THEN "panicked" ELSE "returned"
           /\ position' = r.result.position
           /\ called' = [op |-> "ast_parsers::parse_integer", arg |-> text, before |-> 0,
                         result |-> r.result])
    /\ UNCHANGED <<text, parsers, chars, ast_tree, stderr, save_point>>

NextNom == ParseIntegerNom

SpecNom == InitNom /\ [][NextNom]_vars

\* C11: for every text T without a `"` drawn, `"T"` parses, without an error, to the one node
\* String(T) holding exactly the characters of T in order, newlines included
C11_StringContent ==
    pc = "return" =>
        \A content \in StringContents :
            text = <<"\"">> \o content \o <<"\"">> =>
                /\ stderr = <<>>
                /\ Shapes(ast_tree) = <<Shape(ASTNode_new(ASTString(content), 1, 1))>>

\* the value of a text `-?[0-9]+`: the sign and the digits without their leading zeros
IntegerValue(digits) ==
    IF Head(digits) = "-"
    THEN (IF strip_zeros(Tail(digits)) = <<"0">> THEN <<"0">>
          ELSE <<"-">> \o strip_zeros(Tail(digits)))
    ELSE strip_zeros(digits)

\* C12: every text `-?[0-9]+` drawn, its value held by an i64, parses alone to the one node
\* Integer(value) located at line 1, column 1, without an error and with the whole input consumed
C12_IntegerLiteral ==
    pc = "return" =>
        \A literal \in IntegerTexts :
            text = literal =>
                /\ stderr = <<>>
                /\ ast_tree = <<ASTNode_new(ASTInteger(IntegerValue(literal)), 1, 1)>>
                /\ position = Len(chars)

\* C13: when an i64 does not hold the digits of an integer literal, the integer rule returns
\* an error and does not panic
C13_OverflowIsParseError ==
    called.op = "ast_parsers::parse_integer" =>
        \A digits \in OverflowDigitTexts, rest \in {<<>>, <<" ", "x">>} :
            text = digits \o rest =>
                /\ pc # "panicked"
                /\ ~called.result.ok

\* the characters of the buffer from the position on match the word
WindowMatches(buffer, start, word) ==
    /\ start + Len(word) <= Len(buffer)
    /\ \A i \in 1..Len(word) : buffer[start + i].char = word[i]

\* C14: a skip_string call whose word the next characters equal succeeds and leaves the
\* position the length of the word further, also when the word ends the buffer; any other
\* skip_string call fails and leaves the position unchanged
C14_SkipString ==
    called.op = "skip_string" =>
        IF WindowMatches(chars, called.before, called.arg)
        THEN called.result.ok /\ position = called.before + Len(called.arg)
        ELSE ~called.result.ok /\ position = called.before

\* the two documented forms of an error string, with their fields filled in
DocumentedForm(err) ==
    \/ /\ err.form = "Expected: '{predicate}' at line: {}, column: {}, but found '{}'"
       /\ Len(err.expected) = 1
       /\ err.line >= 1
       /\ err.column >= 1
       /\ Len(err.found) = 1
    \/ /\ err.form = "Expected: '{predicate}', but found end of parse text"
       /\ Len(err.expected) = 1
       /\ err.found = ""

\* C15: every error the top-level dispatcher returns to the driver, which the driver prints,
\* has one of the two documented forms
C15_ErrorFormat ==
    /\ (called.op = "main_parser" /\ ~called.result.ok) => DocumentedForm(called.result.err)
    /\ InputBuilt => \A i \in 1..Len(stderr) : DocumentedForm(stderr[i])

\* C15 witness: the driver printed the end-of-text form for the unclosed group `(1 2`, the
\* error of the child parse made at the end of the input
C15_Witness ==
    /\ pc = "return"
    /\ text = <<"(", "1", " ", "2">>
    /\ Len(stderr) = 1
    /\ stderr[1].form = "Expected: '{predicate}', but found end of parse text"

\* the ASTLocation of a character of the buffer
LocationOf(parsed_char) == [line |-> parsed_char.line, column |-> parsed_char.column]

\* C16: in the buffer of every text parsed, the node a rule of the list yields, started at any
\* whitespace-skipped position, and
\* the node the dispatcher yields, entered at any position, after the alternatives before the
\* successful one were backtracked, are located at the first non-whitespace character consumed
C16_NodeLocation ==
    pc = "return" =>
        \A entry \in 0..Len(chars) :
            /\ main_parser(parsers, chars, entry).ok =>
                   main_parser(parsers, chars, entry).val.location
                       = LocationOf(chars[RuleStart(entry) + 1])
            /\ \A i \in 1..Len(parsers) :
                   run_parser(parsers[i], parsers, chars, RuleStart(entry)).ok =>
                       run_parser(parsers[i], parsers, chars, RuleStart(entry)).val.location
                           = LocationOf(chars[RuleStart(entry) + 1])

\* C16 witness: the driver collected an Initialization whose keyword was on the second line,
\* after leading whitespace
C16_Witness ==
    /\ called.op = "main_parser"
    /\ called.result.ok
    /\ called.result.val.expression.tag = "ASTInitialization"
    /\ RuleStart(called.before) > called.before
    /\ called.result.val.location.line = 2
    /\ called.result.val.location = LocationOf(chars[RuleStart(called.before) + 1])

\* the index of a rule in the dispatcher's list
IndexOf(rule) == CHOOSE i \in 1..Len(parsers) : parsers[i] = rule

\* the composite rules
CompositeRules == {"function_parser", "assignment_parser", "scope_parser", "parentheses_parser"}

\* C17: once the first top-level parse can begin, every composite rule of the list has a lower
\* index than the identifier rule, and from then on the list is not modified
C17_RuleOrder ==
    /\ [](InputBuilt =>
             \A rule \in CompositeRules : IndexOf(rule) < IndexOf("parse_variable_ref"))
    /\ [][InputBuilt => parsers' = parsers]_vars

RECURSIVE ChildRun(_, _, _)
\* the child parses made from the position start on, each after the whitespace is skipped: the
\* nodes of the successes up to the first failure, that failure's error and the position it left
ChildRun(rules, buffer, start) ==
    Bind(main_parser(rules, buffer, skip_spaces_and_newlines(buffer, start)), LAMBDA r :
        IF r.ok
        THEN Bind(ChildRun(rules, buffer, r.position), LAMBDA rest :
                 [nodes |-> <<r.val>> \o rest.nodes, err |-> rest.err, position |-> rest.position])
        ELSE [nodes |-> <<>>, err |-> r.err, position |-> r.position])

\* what the rule started at an opening delimiter at the position entry returns, given the child
\* parses made after the delimiter: closed with the children collected, or failed with the
\* error of the child parse that failed
DelimitedContract(rule, close, tag, entry) ==
    Bind(ChildRun(parsers, chars, entry + 1), LAMBDA run :
        Bind(run_parser(rule, parsers, chars, entry), LAMBDA r :
            IF has_next_char(chars, run.position) /\ chars[run.position + 1].char = close
            THEN /\ r.ok
                 /\ r.val.expression.tag = tag
                 /\ r.val.expression.nodes = run.nodes
                 /\ r.position = run.position + 1
            ELSE /\ ~r.ok
                 /\ r.err = run.err))

\* C18: a Scope or Parentheses rule started at its opening delimiter, anywhere in the buffer
\* of a text parsed,
\* parses children until a child parse fails and only then tries the closer: if the closer is
\* there it succeeds with exactly the children collected, else it fails with the child's error
C18_DelimitedTermination ==
    pc = "return" =>
        \A entry \in 0..(Len(chars) - 1) :
            /\ chars[entry + 1].char = "{" =>
                   DelimitedContract("scope_parser", "}", "ASTScope", entry)
            /\ chars[entry + 1].char = "(" =>
                   DelimitedContract("parentheses_parser", ")", "ASTParentheses", entry)

\* C18 witness: the scope with a whitespace-only interior was parsed to a Scope without children
C18_Witness ==
    /\ pc = "return"
    /\ text = <<"{", " ", "\n", " ", "}">>
    /\ stderr = <<>>
    /\ Len(ast_tree) = 1
    /\ ast_tree[1].expression = ASTScope(<<>>)

\* the statements parse_ast_text has still to execute before its driver loop
AssemblySteps ==
    CASE pc = "push_scope" -> 5
      [] pc = "push_parentheses" -> 4
      [] pc = "insert_function" -> 3
      [] pc = "insert_assignment" -> 2
      [] pc = "new_input" -> 1
      [] OTHER -> 0

\* a bound on the steps parse_ast_text has still to take: the statements before the loop and a
\* turn of the loop for every character not yet consumed, then the turn that leaves the loop
StepsLeft ==
    CASE pc = "return" -> 0
      [] pc = "loop" -> (Len(chars) - position) + 1
      [] OTHER -> AssemblySteps + Len(text) + 1

\* C19: parse_ast_text returns for every text drawn, after a number of steps the length of the
\* text bounds: every successful dispatcher call, entered at any position of the buffer of a
\* text parsed, leaves the cursor
\* further than it was entered; the driver is out of its loop once an error was printed, and
\* leaves it when the cursor is at the end of the input; every step lowers the bound
C19_Termination ==
    /\ [](pc = "return" =>
             \A entry \in 0..Len(chars) :
                 main_parser(parsers, chars, entry).ok =>
                     main_parser(parsers, chars, entry).position > entry)
    /\ [](stderr # <<>> => pc = "return")
    /\ [][(pc = "loop" /\ finished(chars, position)) => pc' = "return"]_vars
    /\ [](StepsLeft >= 0)
    /\ [][StepsLeft' < StepsLeft]_vars

\* C19 witness: the driver returned after three successful dispatcher calls, at the end of the input
C19_Witness ==
    /\ pc = "return"
    /\ Len(ast_tree) = 3
    /\ stderr = <<>>
    /\ position = Len(chars)

\* what the driver loop yields for a text, on the assembled grammar
ParsedRun(source) == DriverRun(AssembledParsers, ParseInput_new(source).chars, 0)

\* C20: for a sequence of well-formed expressions followed by trailing spaces or carriage
\* returns, the driver, not at the end of the input after the last expression, calls the
\* dispatcher once more; the call fails and leaves the cursor where it was, one error is
\* printed, and the nodes of all the expressions are returned
C20_TrailingWhitespace ==
    pc = "return" =>
        \A body \in ExpressionTexts, trailing \in WhitespaceTails :
            (text = body \o trailing /\ ParsedRun(body).errors = <<>>) =>
                /\ ast_tree = ParsedRun(body).nodes
                /\ Len(stderr) = 1
                /\ called.op = "main_parser"
                /\ ~called.result.ok
                /\ called.before = Len(ParseInput_new(body).chars)
                /\ position = called.before
                /\ position < Len(chars)

\* C20 witness: an Initialization and a variable reference were returned and an error printed
\* for the text that ends in a carriage return and two spaces
C20_Witness ==
    /\ pc = "return"
    /\ text = <<"l", "e", "t", " ", "x", " ", "=", " ", "(", "1", ")", "\r", "y", "\r", " ", " ">>
    /\ Len(ast_tree) = 2
    /\ stderr = <<ExpectedCharAtEndMsg("(")>>

\* C21: after any sequence of cursor operations (peek, pop, skip_next_char, skip_x_chars,
\* skip_string, skip_any_of_chars, pop_until_char, create_save_point, load_save_point of a save
\* point taken on the same cursor) the position is at least 0 and at most the length of the
\* buffer, and no operation changes the buffer built by ParseInput::new
C21_CursorBounds ==
    /\ [](0 <= position /\ position <= Len(chars))
    /\ [](chars = ParseInput_new(text).chars)
    /\ [][chars' = chars]_vars

\* a pop at the end of a non-empty buffer, after a save point was taken: the cursor stays at the end
C21_Witness ==
    /\ pc = "cursor"
    /\ called.op = "pop_next_char"
    /\ called.before = Len(chars)
    /\ position = Len(chars)
    /\ Len(chars) = MaxLen
    /\ save_point # <<>>

====
